---- MODULE Spec2Model ----
(***************************************************************************)
(* procplay: a daemon that polls /proc for tracked program names, records  *)
(* one row per run of a tracked process in the sqlite table `sessions`,    *)
(* and a `report` invocation that totals the closed rows per program.      *)
(*                                                                         *)
(* Time is counted in units of 1/Res second.  A timestamp text written by  *)
(* to_rfc3339 is the pair <<whole seconds, fraction>>; strftime('%s', _)   *)
(* reads back the whole seconds only.                                      *)
(***************************************************************************)
EXTENDS Integers, Sequences, FiniteSets, TLC

\* ---- bounds of the model ------------------------------------------------
MaxPid == 2
MaxClock == 4
MaxRows == 3
MaxRestarts == 1
MaxElapsed == 1
MaxStoreRows == 2
MaxReportRows == 3
MaxStoreTime == 2
MaxSecs == 3700

\* ---- program constants --------------------------------------------------
Res == 2
SleepSecs == 1
SecsPerHour == 3600
SecsPerMinute == 60

Pids == 1..MaxPid
Tracked == {"game", "chess"}
ProcNames == Tracked \cup {"other"}

\* What reading /proc/<pid>/comm gives: no such entry, an error, or the
\* process name followed by a newline.  A name is kept as its text without
\* leading and trailing whitespace (name) and whether it has any (pad).
NoProc == [status |-> "noent", name |-> "", pad |-> FALSE]
Unreadable == [status |-> "eacces", name |-> "", pad |-> FALSE]
CommResults ==
    {NoProc, Unreadable} \cup [status : {"ok"}, name : ProcNames, pad : BOOLEAN]

\* The parsed config.yaml of the daemon runs: two programs to track.
MainConfig == [exists |-> TRUE, parses |-> TRUE, tracked |-> <<"game", "chess">>]

\* The file load_config writes when there is none.
DefaultConfig == [exists |-> TRUE, parses |-> TRUE, tracked |-> <<"example_program">>]

\* The states config.yaml can be in: absent, not parsable, or a list.
Configs ==
    {[exists |-> FALSE, parses |-> FALSE, tracked |-> << >>],
     [exists |-> TRUE, parses |-> FALSE, tracked |-> << >>],
     [exists |-> TRUE, parses |-> TRUE, tracked |-> << >>],
     [exists |-> TRUE, parses |-> TRUE, tracked |-> <<"game">>],
     MainConfig}

VARIABLES
    sessions,     \* the table `sessions`: a sequence of rows in insertion order
    active,       \* run_daemon's HashMap pid -> (name, start)
    seen_pids,    \* the (pid, name) pairs of the current snapshot
    pc,           \* position of the daemon process
    now,          \* the last value read from the clock, in units of 1/Res second
    restarts,     \* number of daemon restarts so far
    sqlResult,    \* outcome of the daemon's last conn.execute
    rpc,          \* position of the report process
    totals,       \* rows returned by the report's SELECT: path -> total_secs
    printed,      \* lines printed by the report: <<path, h, m, s>>
    secs,         \* input of the formatting arithmetic
    hms,          \* result of the formatting arithmetic (a set holding <<h, m, s>>)
    sessions0,    \* history: the table when the current tick began
    active0,      \* history: the map when the current tick began
    t0,           \* history: the clock when the current tick began
    orphans,      \* history: rowids of the rows that had ended NULL at the last restart
    prevSeen,     \* history: the snapshot of the previous tick of this run, if any
    config,       \* config.yaml: whether it exists and parses, and its tracked list
    exitCode,     \* the code load_config ended the process with, if it did
    procs         \* the comm results a scan of /proc is applied to

vars == <<sessions, active, seen_pids, pc, now, restarts,
          sqlResult, rpc, totals, printed, secs, hms,
          sessions0, active0, t0, orphans, prevSeen, config, exitCode, procs>>

daemonVars == <<active, seen_pids, pc, restarts, sqlResult>>
reportVars == <<rpc, totals, printed>>
fmtVars == <<secs, hms>>
histVars == <<sessions0, active0, t0, orphans, prevSeen>>
envVars == <<config, exitCode, procs>>

\* ---- timestamps ---------------------------------------------------------
NULL == << >>

to_rfc3339(t) == <<t \div Res, t % Res>>

strftime_s(text) == text[1]

\* ---- the table ----------------------------------------------------------
RECURSIVE MaxRowid(_)
MaxRowid(rs) ==
    IF rs = << >> THEN 0
    ELSE LET m == MaxRowid(Tail(rs)) IN IF Head(rs).id > m THEN Head(rs).id ELSE m

\* Mutant: the row is written with ended = started instead of NULL.
InsertSession_closed(rs, name, pid, started) ==
    Append(rs, [id |-> MaxRowid(rs) + 1, path |-> name, pid |-> pid,
                started |-> started, ended |-> started])

\* Mutant: INSERT OR REPLACE keyed by pid: the pid's latest row is overwritten.
InsertSession_upsert(rs, name, pid, started) ==
    IF \E i \in DOMAIN rs : rs[i].pid = pid
    THEN LET k == CHOOSE i \in DOMAIN rs :
                     /\ rs[i].pid = pid
                     /\ \A j \in DOMAIN rs : rs[j].pid = pid => j <= i
         IN  [rs EXCEPT ![k] = [id |-> rs[k].id, path |-> name, pid |-> pid,
                                started |-> started, ended |-> NULL]]
    ELSE Append(rs, [id |-> MaxRowid(rs) + 1, path |-> name, pid |-> pid,
                     started |-> started, ended |-> NULL])

\* Mutant: a program's latest row is resumed (pid replaced, ended cleared)
\* instead of a new row being added.
InsertSession_merge(rs, name, pid, started) ==
    IF \E i \in DOMAIN rs : rs[i].path = name
    THEN LET k == CHOOSE i \in DOMAIN rs :
                     /\ rs[i].path = name
                     /\ \A j \in DOMAIN rs : rs[j].path = name => j <= i
         IN  [rs EXCEPT ![k] = [@ EXCEPT !.pid = pid, !.ended = NULL]]
    ELSE Append(rs, [id |-> MaxRowid(rs) + 1, path |-> name, pid |-> pid,
                     started |-> started, ended |-> NULL])

InsertSession(rs, name, pid, started) ==
    Append(rs, [id |-> MaxRowid(rs) + 1, path |-> name, pid |-> pid,
                started |-> started, ended |-> NULL])

\* Mutant: the UPDATE without "AND ended IS NULL".
UpdateEnded_none(rs, ended, pid) == rs

UpdateEnded_allpids(rs, ended, pid) ==
    [i \in DOMAIN rs |->
        IF rs[i].ended = NULL THEN [rs[i] EXCEPT !.ended = ended] ELSE rs[i]]

UpdateEnded_anyrow(rs, ended, pid) ==
    [i \in DOMAIN rs |->
        IF rs[i].pid = pid THEN [rs[i] EXCEPT !.ended = ended] ELSE rs[i]]

UpdateEnded(rs, ended, pid) ==
    [i \in DOMAIN rs |->
        IF rs[i].pid = pid /\ rs[i].ended = NULL
        THEN [rs[i] EXCEPT !.ended = ended]
        ELSE rs[i]]

Changes(rs, pid) == Cardinality({i \in DOMAIN rs : rs[i].pid = pid /\ rs[i].ended = NULL})

\* The Result of conn.execute: Err when the write itself fails (fault), else
\* Ok(number of rows changed); neither statement fails for any other reason.
NoResult == [op |-> "none", pid |-> 0, changes |-> 0, fault |-> FALSE, err |-> FALSE]

ExecuteInsert(pid, fault) ==
    [op |-> "insert", pid |-> pid, changes |-> IF fault THEN 0 ELSE 1,
     fault |-> fault, err |-> fault]

ExecuteUpdate(rs, pid, fault) ==
    [op |-> "update", pid |-> pid, changes |-> IF fault THEN 0 ELSE Changes(rs, pid),
     fault |-> fault, err |-> fault]

\* ---- the snapshot of /proc ----------------------------------------------
\* name.trim(): the text without its newline and edge whitespace.
trim(raw) == raw.name

\* config.tracked.contains(&name)
Contains(list, name) == \E i \in DOMAIN list : list[i] = name

\* Mutant: the scan without the config.tracked.contains test.
ReadProc_nofilter(comm) ==
    {<<p, trim(comm[p])>> : p \in {q \in Pids : comm[q].status = "ok"}}

\* comm[p] is what reading /proc/p/comm gives.  An entry that is missing or
\* cannot be read is skipped; the others are kept, under the trimmed name,
\* when config.tracked contains it.
ReadProc(comm) ==
    {<<p, trim(comm[p])>> :
        p \in {q \in Pids : /\ comm[q].status = "ok"
                            /\ Contains(config.tracked, trim(comm[q]))}}

\* Mutant: the membership test of the "detect ended" loop never matches.
\* active.insert(pid, (name, now)) and active.remove(&pid).
active_insert(act, pid, name, start) ==
    [p \in DOMAIN act \cup {pid} |->
        IF p = pid THEN [name |-> name, start |-> start] ELSE act[p]]

active_remove(act, pid) == [p \in DOMAIN act \ {pid} |-> act[p]]

SeenPid_never(seen, pid) == FALSE

SeenPid(seen, pid) == \E e \in seen : e[1] = pid

\* ---- the report ---------------------------------------------------------
RustDiv(a, b) == IF a >= 0 THEN a \div b ELSE -((-a) \div b)

RustRem(a, b) == a - b * RustDiv(a, b)

\* Mutant: the minutes are taken without the "% 3600".
Hms_nomod(total) ==
    <<RustDiv(total, SecsPerHour),
      RustDiv(total, SecsPerMinute),
      RustRem(total, SecsPerMinute)>>

Hms(total) ==
    <<RustDiv(total, SecsPerHour),
      RustDiv(RustRem(total, SecsPerHour), SecsPerMinute),
      RustRem(total, SecsPerMinute)>>

\* Mutant: the subtraction the other way round.
RowSecs_swapped(r) == strftime_s(r.started) - strftime_s(r.ended)

RowSecs(r) == strftime_s(r.ended) - strftime_s(r.started)

RECURSIVE GroupSum(_, _)
GroupSum(rs, acc) ==
    IF rs = << >> THEN acc
    ELSE LET r == Head(rs) IN
         IF r.ended = NULL THEN GroupSum(Tail(rs), acc)
         ELSE IF r.path \in DOMAIN acc
              THEN GroupSum(Tail(rs), [acc EXCEPT ![r.path] = @ + RowSecs(r)])
              ELSE GroupSum(Tail(rs), [p \in DOMAIN acc \cup {r.path} |->
                                          IF p = r.path THEN RowSecs(r) ELSE acc[p]])

EmptyMap == [p \in {} |-> 0]

SelectTotals(rs) == GroupSum(rs, EmptyMap)

PrintLine(tot, p) == <<p>> \o Hms(tot[p])

PrintLines(tot) == {PrintLine(tot, p) : p \in DOMAIN tot}

\* ---- initial state: first start of the daemon on a fresh store ------------
Init ==
    /\ sessions = << >>
    /\ active = EmptyMap
    /\ seen_pids = {}
    /\ pc = "snapshot"
    /\ now = 0
    /\ restarts = 0
    /\ sqlResult = NoResult
    /\ rpc = "idle"
    /\ totals = EmptyMap
    /\ printed = {}
    /\ secs = 0
    /\ hms = {}
    /\ sessions0 = << >>
    /\ active0 = EmptyMap
    /\ t0 = 0
    /\ orphans = {}
    /\ prevSeen = {}
    /\ config = MainConfig
    /\ exitCode = {}
    /\ procs = [p \in Pids |-> NoProc]

\* ---- the daemon ---------------------------------------------------------
\* The report's statement is between its first step and its last: its
\* connection holds sqlite's shared lock on the database file, and no other
\* connection can commit a write until it is released.
SharedLockHeld == rpc = "reading"

\* Local::now(): the clock has moved on by d units since it was last read.
LocalNow_back(d) == now - d

LocalNow(d) == now + d

\* Entries of seen_pids the "detect new" loop still acts on: it skips a pid
\* that is a key of the map, and every pid it has acted on is one.
todo_byname ==
    {e \in seen_pids : e[1] \notin DOMAIN active \/ active[e[1]].name # e[2]}

todo == {e \in seen_pids : e[1] \notin DOMAIN active}

\* Entries of prev_pids the "detect ended" loop still acts on: it skips a pid
\* that was seen, and every pid it has acted on has left the map.
prev_pids_none == {}

prev_pids == {pid \in DOMAIN active : ~SeenPid(seen_pids, pid)}

\* One pass over /proc: the tracked processes whose comm could be read.
Snapshot ==
    /\ pc = "snapshot"
    /\ \E comm \in [Pids -> CommResults] :
          seen_pids' = ReadProc(comm)
    /\ pc' = "open"
    /\ sessions0' = sessions
    /\ active0' = active
    /\ t0' = now
    /\ UNCHANGED <<sessions, active, now, restarts, sqlResult, prevSeen, orphans,
                   reportVars, fmtVars, envVars>>

\* One effective iteration of the "detect new" loop.  A failed INSERT panics
\* in unwrap, before the pid enters the map.  While the shared lock is held
\* the INSERT waits in the busy handler and can only end as a failure.
DetectNew ==
    /\ pc = "open"
    /\ Len(sessions) < MaxRows
    /\ \E e \in todo, d \in 0..MaxElapsed, fault \in BOOLEAN :
          /\ ~fault => ~SharedLockHeld
          /\ LocalNow(d) <= MaxClock
          /\ now' = LocalNow(d)
          /\ sqlResult' = ExecuteInsert(e[1], fault)
          /\ IF fault
             THEN /\ pc' = "aborted"
                  /\ UNCHANGED <<sessions, active>>
             ELSE /\ sessions' = InsertSession(sessions, e[2], e[1],
                                               to_rfc3339(LocalNow(d)))
                  /\ active' = active_insert(active, e[1], e[2], LocalNow(d))
                  /\ pc' = "open"
    /\ UNCHANGED <<seen_pids, restarts, reportVars, fmtVars, histVars, envVars>>

\* The "detect new" loop is over; prev_pids is taken from the map's keys.
CollectPrev ==
    /\ pc = "open"
    /\ todo = {}
    /\ pc' = "close"
    /\ UNCHANGED <<sessions, active, seen_pids, now, restarts, sqlResult,
                   reportVars, fmtVars, histVars, envVars>>

\* One effective iteration of the "detect ended" loop.  A failed UPDATE
\* panics in unwrap, after the pid has left the map.  While the shared lock
\* is held the UPDATE waits in the busy handler and can only end as a failure.
DetectEnded ==
    /\ pc = "close"
    /\ \E pid \in prev_pids, d \in 0..MaxElapsed, fault \in BOOLEAN :
          /\ ~fault => ~SharedLockHeld
          /\ LocalNow(d) <= MaxClock
          /\ now' = LocalNow(d)
          /\ active' = active_remove(active, pid)
          /\ sqlResult' = ExecuteUpdate(sessions, pid, fault)
          /\ IF fault
             THEN /\ pc' = "aborted"
                  /\ UNCHANGED sessions
             ELSE /\ sessions' = UpdateEnded(sessions, to_rfc3339(LocalNow(d)), pid)
                  /\ pc' = "close"
    /\ UNCHANGED <<seen_pids, restarts, reportVars, fmtVars, histVars, envVars>>

\* Both loops are over: the tick is complete and the daemon goes to sleep.
EndTick ==
    /\ pc = "close"
    /\ prev_pids = {}
    /\ pc' = "sleep"
    /\ prevSeen' = {seen_pids}
    /\ UNCHANGED <<sessions, active, seen_pids, now, restarts,
                   sqlResult, reportVars, fmtVars, envVars, sessions0, active0, t0, orphans>>

\* thread::sleep(Duration::from_secs(1)), then the next iteration of the loop.
Sleep ==
    /\ pc = "sleep"
    /\ now + SleepSecs * Res <= MaxClock
    /\ now' = now + SleepSecs * Res
    /\ pc' = "snapshot"
    /\ UNCHANGED <<sessions, active, seen_pids, restarts,
                   sqlResult, reportVars, fmtVars, histVars, envVars>>

\* The daemon process ends (killed, or after a panic) and main runs again:
\* init_db keeps the table, run_daemon starts from an empty map.
Restart ==
    /\ pc \in {"snapshot", "open", "close", "sleep", "aborted"}
    /\ restarts < MaxRestarts
    /\ restarts' = restarts + 1
    /\ active' = EmptyMap
    /\ seen_pids' = {}
    /\ pc' = "snapshot"
    /\ sqlResult' = NoResult
    /\ prevSeen' = {}
    /\ orphans' = {sessions[i].id : i \in {j \in DOMAIN sessions : sessions[j].ended = NULL}}
    /\ UNCHANGED <<sessions, now, reportVars, fmtVars, envVars, sessions0, active0, t0>>

\* ---- the report invocation ----------------------------------------------
\* The first rows.next(): the SELECT runs on the table as it is.  With no
\* group to return the statement is done at once; otherwise it stays open,
\* holding the shared lock, until the loop has fetched past the last row.
Report ==
    /\ rpc = "idle"
    /\ pc # "fmt"
    /\ totals' = SelectTotals(sessions)
    /\ printed' = {}
    /\ rpc' = IF DOMAIN SelectTotals(sessions) = {} THEN "done" ELSE "reading"
    /\ UNCHANGED <<sessions, daemonVars, now, fmtVars, histVars, envVars>>

\* One iteration of the while loop: the fetched row is printed and
\* rows.next() is called again; past the last row the statement is done.
ReportNext ==
    /\ rpc = "reading"
    /\ \E p \in DOMAIN totals :
          /\ PrintLine(totals, p) \notin printed
          /\ printed' = printed \cup {PrintLine(totals, p)}
          /\ rpc' = IF printed \cup {PrintLine(totals, p)} = PrintLines(totals)
                    THEN "done" ELSE "reading"
    /\ UNCHANGED <<sessions, daemonVars, now, fmtVars, histVars, envVars, totals>>

ReportExit ==
    /\ rpc = "done"
    /\ rpc' = "idle"
    /\ totals' = EmptyMap
    /\ printed' = {}
    /\ UNCHANGED <<sessions, daemonVars, now, fmtVars, histVars, envVars>>

Next ==
    \/ Snapshot
    \/ DetectNew
    \/ CollectPrev
    \/ DetectEnded
    \/ EndTick
    \/ Sleep
    \/ Restart
    \/ Report
    \/ ReportNext
    \/ ReportExit

Spec == Init /\ [][Next]_vars

\* ---- the store on its own: the statements applied to any table ----------
Texts == {to_rfc3339(t) : t \in 0..MaxStoreTime}

StoreFields == [path : Tracked, pid : Pids, started : Texts, ended : Texts \cup {NULL}]

\* The table of n rows with rowids 1..n and the fields f gives.
StoreOf(n, f) ==
    [i \in 1..n |-> [id |-> i, path |-> f[i].path, pid |-> f[i].pid,
                     started |-> f[i].started, ended |-> f[i].ended]]

InitStore ==
    /\ \E n \in 0..MaxStoreRows : \E f \in [1..n -> StoreFields] : sessions = StoreOf(n, f)
    /\ active = EmptyMap
    /\ seen_pids = {}
    /\ pc = "store"
    /\ now = 0
    /\ restarts = 0
    /\ sqlResult = NoResult
    /\ rpc = "idle"
    /\ totals = EmptyMap
    /\ printed = {}
    /\ secs = 0
    /\ hms = {}
    /\ sessions0 = << >>
    /\ active0 = EmptyMap
    /\ t0 = 0
    /\ orphans = {}
    /\ prevSeen = {}
    /\ config = MainConfig
    /\ exitCode = {}
    /\ procs = [p \in Pids |-> NoProc]

\* The UPDATE of the "detect ended" loop, issued for any pid at any time.
StoreClose ==
    /\ pc = "store"
    /\ \E pid \in Pids, t \in 0..MaxStoreTime, fault \in BOOLEAN :
          /\ sqlResult' = ExecuteUpdate(sessions, pid, fault)
          /\ sessions' = IF fault THEN sessions
                         ELSE UpdateEnded(sessions, to_rfc3339(t), pid)
    /\ UNCHANGED <<active, seen_pids, pc, now, restarts, reportVars, fmtVars, histVars, envVars>>

NextStore == StoreClose

SpecStore == InitStore /\ [][NextStore]_vars

\* ---- the report on its own: the SELECT applied to any table ---------------
InitReport ==
    /\ \E n \in 0..MaxReportRows : \E f \in [1..n -> StoreFields] : sessions = StoreOf(n, f)
    /\ active = EmptyMap
    /\ seen_pids = {}
    /\ pc = "report"
    /\ now = 0
    /\ restarts = 0
    /\ sqlResult = NoResult
    /\ rpc = "idle"
    /\ totals = EmptyMap
    /\ printed = {}
    /\ secs = 0
    /\ hms = {}
    /\ sessions0 = << >>
    /\ active0 = EmptyMap
    /\ t0 = 0
    /\ orphans = {}
    /\ prevSeen = {}
    /\ config = MainConfig
    /\ exitCode = {}
    /\ procs = [p \in Pids |-> NoProc]

NextReport ==
    \/ Report
    \/ ReportNext
    \/ ReportExit

SpecReport == InitReport /\ [][NextReport]_vars

\* ---- the formatting arithmetic on its own --------------------------------
InitFmt ==
    /\ sessions = << >>
    /\ active = EmptyMap
    /\ seen_pids = {}
    /\ pc = "fmt"
    /\ now = 0
    /\ restarts = 0
    /\ sqlResult = NoResult
    /\ rpc = "idle"
    /\ totals = EmptyMap
    /\ printed = {}
    /\ secs \in 0..MaxSecs
    /\ hms = {}
    /\ sessions0 = << >>
    /\ active0 = EmptyMap
    /\ t0 = 0
    /\ orphans = {}
    /\ prevSeen = {}
    /\ config = MainConfig
    /\ exitCode = {}
    /\ procs = [p \in Pids |-> NoProc]

\* The h, m, s of one printed line, for a total of secs seconds.
Format ==
    /\ pc = "fmt"
    /\ hms = {}
    /\ hms' = {Hms(secs)}
    /\ UNCHANGED <<sessions, daemonVars, now, reportVars, secs, histVars, envVars>>

NextFmt == Format

SpecFmt == InitFmt /\ [][NextFmt]_vars

\* ---- main: load_config before anything else --------------------------------
InitMain ==
    /\ sessions = << >>
    /\ active = EmptyMap
    /\ seen_pids = {}
    /\ pc = "main"
    /\ now = 0
    /\ restarts = 0
    /\ sqlResult = NoResult
    /\ rpc = "idle"
    /\ totals = EmptyMap
    /\ printed = {}
    /\ secs = 0
    /\ hms = {}
    /\ sessions0 = << >>
    /\ active0 = EmptyMap
    /\ t0 = 0
    /\ orphans = {}
    /\ prevSeen = {}
    /\ config \in Configs
    /\ exitCode = {}
    /\ procs = [p \in Pids |-> NoProc]

\* Mutant: load_config without the is_empty check.
LoadConfig_noempty ==
    /\ pc = "main"
    /\ IF ~config.exists
       THEN /\ config' = DefaultConfig
            /\ exitCode' = {0}
            /\ pc' = "exited"
       ELSE IF ~config.parses
       THEN /\ pc' = "aborted"
            /\ UNCHANGED <<config, exitCode>>
       ELSE /\ pc' = "snapshot"
            /\ UNCHANGED <<config, exitCode>>
    /\ UNCHANGED <<sessions, active, seen_pids, now, restarts, sqlResult,
                   reportVars, fmtVars, histVars, procs>>

\* load_config, then (when it returns) init_db and run_daemon's empty map.
\* A missing file is written with the default and the process exits with 0;
\* a file that does not parse panics in expect; an empty list exits with 0.
LoadConfig ==
    /\ pc = "main"
    /\ IF ~config.exists
       THEN /\ config' = DefaultConfig
            /\ exitCode' = {0}
            /\ pc' = "exited"
       ELSE IF ~config.parses
       THEN /\ pc' = "aborted"
            /\ UNCHANGED <<config, exitCode>>
       ELSE IF config.tracked = << >>
       THEN /\ exitCode' = {0}
            /\ pc' = "exited"
            /\ UNCHANGED config
       ELSE /\ pc' = "snapshot"
            /\ UNCHANGED <<config, exitCode>>
    /\ UNCHANGED <<sessions, active, seen_pids, now, restarts, sqlResult,
                   reportVars, fmtVars, histVars, procs>>

\* The program is run again, whatever became of the run before.
Rerun ==
    /\ pc \in {"exited", "aborted", "snapshot", "open", "close", "sleep"}
    /\ restarts < MaxRestarts
    /\ restarts' = restarts + 1
    /\ active' = EmptyMap
    /\ seen_pids' = {}
    /\ pc' = "main"
    /\ sqlResult' = NoResult
    /\ prevSeen' = {}
    /\ exitCode' = {}
    /\ orphans' = {sessions[i].id : i \in {j \in DOMAIN sessions : sessions[j].ended = NULL}}
    /\ UNCHANGED <<sessions, now, reportVars, fmtVars, sessions0, active0, t0,
                   config, procs>>

NextMain ==
    \/ LoadConfig
    \/ Snapshot
    \/ DetectNew
    \/ CollectPrev
    \/ DetectEnded
    \/ EndTick
    \/ Sleep
    \/ Rerun

SpecMain == InitMain /\ [][NextMain]_vars

\* ---- the scan of /proc on its own -------------------------------------------
InitSnap ==
    /\ sessions = << >>
    /\ active = EmptyMap
    /\ seen_pids = {}
    /\ pc = "scan"
    /\ now = 0
    /\ restarts = 0
    /\ sqlResult = NoResult
    /\ rpc = "idle"
    /\ totals = EmptyMap
    /\ printed = {}
    /\ secs = 0
    /\ hms = {}
    /\ sessions0 = << >>
    /\ active0 = EmptyMap
    /\ t0 = 0
    /\ orphans = {}
    /\ prevSeen = {}
    /\ config \in {c \in Configs : c.parses /\ c.tracked # << >>}
    /\ exitCode = {}
    /\ procs \in [Pids -> CommResults]

\* The pass over /proc of one tick, applied to procs.
Scan ==
    /\ pc = "scan"
    /\ seen_pids' = ReadProc(procs)
    /\ pc' = "open"
    /\ UNCHANGED <<sessions, active, now, restarts, sqlResult,
                   reportVars, fmtVars, histVars, envVars>>

NextSnap == Scan

SpecSnap == InitSnap /\ [][NextSnap]_vars

\* ---- a daemon that keeps ticking ----------------------------------------
\* One daemon run in which every write succeeds and that is never stopped.
\* The loop of run_daemon has no exit and no wait but the sleep, so each of
\* its steps, once it is the loop's position, is taken: weak fairness of the
\* loop's steps.  A pass over /proc is kept to what the rows bound can hold.
SnapshotFits ==
    /\ Snapshot
    /\ Len(sessions) + Cardinality(todo') <= MaxRows

DetectNewOk ==
    /\ DetectNew
    /\ pc' # "aborted"

DetectEndedOk ==
    /\ DetectEnded
    /\ pc' # "aborted"

NextLive ==
    \/ SnapshotFits
    \/ DetectNewOk
    \/ CollectPrev
    \/ DetectEndedOk
    \/ EndTick
    \/ Sleep

SpecLive == Init /\ [][NextLive]_vars /\ WF_vars(NextLive)

\* ========================================================================
\* Properties
\* ========================================================================
OpenRows(rs, pid) == {i \in DOMAIN rs : rs[i].pid = pid /\ rs[i].ended = NULL}

SeenPidSet == {e[1] : e \in seen_pids}

TickDone == pc = "sleep"

\* Rows of the table that were not in it when the current tick began.
NewRowIdx == {i \in DOMAIN sessions :
                 \A j \in DOMAIN sessions0 : sessions0[j].id # sessions[i].id}

\* Pids the current tick had to open, and pids it had to close.
NewPids == SeenPidSet \ DOMAIN active0

GonePids == DOMAIN active0 \ SeenPidSet

\* ---- C1 ------------------------------------------------------------------
\* C1: in every reachable state, over ticks and daemon restarts, for every
\* pid at most one row of sessions with that pid has ended NULL.
C1_AtMostOneOpen ==
    \A pid \in Pids : Cardinality(OpenRows(sessions, pid)) <= 1

\* ---- C2 ------------------------------------------------------------------
\* What C2 asks of a completed tick, given how the started value of the new
\* row of pid p must read.
OpenInvariant(StartedOk(_, _)) ==
    /\ \A p \in NewPids :
          /\ p \in DOMAIN active
          /\ Cardinality({i \in NewRowIdx : sessions[i].pid = p}) = 1
          /\ \A i \in NewRowIdx :
                sessions[i].pid = p =>
                   /\ <<p, sessions[i].path>> \in seen_pids
                   /\ StartedOk(p, sessions[i].started)
                   /\ sessions[i].ended = NULL
    /\ \A i \in NewRowIdx : sessions[i].pid \in NewPids

\* C2 as stated: when a tick is complete there is one timestamp, the tick's,
\* such that every pid observed and not a key of the map before the tick has
\* exactly one new row with its pid, the observed name, started = that
\* timestamp and ended NULL, and is a key of the map; no other pid has a new row.
C2_OpenInvariantOneTimestamp ==
    TickDone =>
       \E t \in 0..MaxClock :
          LET Same(p, started) == started = to_rfc3339(t)
          IN  OpenInvariant(Same)

\* C2 as amended: the same, with started = the clock value read when that
\* pid's row was inserted, a value read during the tick and the one kept as
\* the pid's start in the map.
C2_OpenInvariant ==
    TickDone =>
       LET Own(p, started) == /\ started = to_rfc3339(active[p].start)
                              /\ t0 <= active[p].start
                              /\ active[p].start <= now
       IN  OpenInvariant(Own)

\* A completed tick that opened two pids at two different clock values.
C2_Witness ==
    /\ TickDone
    /\ \E i, j \in NewRowIdx : sessions[i].started # sessions[j].started

\* ---- C3 ------------------------------------------------------------------
MostRecentOpen(rs, pid) ==
    CHOOSE i \in OpenRows(rs, pid) : \A j \in OpenRows(rs, pid) : j <= i

\* C3: when a tick is complete, every pid that was a key of the map before
\* the tick and was not observed has left the map and its most recent open
\* row has ended set to a clock value read during the tick; every other row
\* that existed before the tick is unmodified.
C3_CloseInvariant ==
    TickDone =>
       LET Closed == {MostRecentOpen(sessions0, p) :
                         p \in {q \in GonePids : OpenRows(sessions0, q) # {}}}
       IN  /\ \A p \in GonePids : p \notin DOMAIN active
           /\ \A i \in DOMAIN sessions0 :
                 IF i \in Closed
                 THEN /\ sessions[i] = [sessions0[i] EXCEPT !.ended = sessions[i].ended]
                      /\ \E t \in t0..now : sessions[i].ended = to_rfc3339(t)
                 ELSE sessions[i] = sessions0[i]

\* ---- C4 ------------------------------------------------------------------
\* C4: a tick whose observation set equals that of the preceding tick of the
\* same daemon run changes neither the map nor any row of sessions.
C4_TickIdempotence ==
    [][(/\ pc \in {"open", "close"}
        /\ prevSeen = {seen_pids}
        /\ restarts' = restarts)
       => (sessions' = sessions /\ active' = active)]_vars

\* A tick with the same non-empty observation as the one before it has run
\* through its "detect new" loop.
C4_Witness ==
    /\ pc = "close"
    /\ prevSeen = {seen_pids}
    /\ seen_pids # {}
    /\ DOMAIN active = SeenPidSet

\* ---- C5 ------------------------------------------------------------------
\* C5: a store write that fails for one pid never aborts the process: the
\* daemon is still in its loop, where the other pids of the tick and the
\* later ticks are processed.
C5_FailureIsolation ==
    sqlResult.err => pc \in {"snapshot", "open", "close", "sleep"}

\* ---- C6 ------------------------------------------------------------------
\* C6: the close UPDATE issued for a pid that has no row with ended NULL
\* changes no row and is no error, for every table and every pid.
C6_IdempotentClose ==
    [][(/\ pc = "store"
        /\ sqlResult'.op = "update"
        /\ ~sqlResult'.fault
        /\ OpenRows(sessions, sqlResult'.pid) = {})
       => (sessions' = sessions /\ ~sqlResult'.err /\ sqlResult'.changes = 0)]_vars

\* The UPDATE was issued for a pid whose only rows are closed.
C6_Witness ==
    /\ pc = "store"
    /\ sqlResult.op = "update"
    /\ ~sqlResult.fault
    /\ sqlResult.changes = 0
    /\ \E i \in DOMAIN sessions : sessions[i].pid = sqlResult.pid

\* ---- C7 ------------------------------------------------------------------
\* C7: over ticks, restarts and reports, a row is never deleted, its pid,
\* path and started never change, and its ended changes at most once, from
\* NULL to a timestamp.
C7_SessionLifecycle ==
    [][\A i \in DOMAIN sessions :
          \E j \in DOMAIN sessions' :
             /\ sessions'[j].id = sessions[i].id
             /\ sessions'[j].pid = sessions[i].pid
             /\ sessions'[j].path = sessions[i].path
             /\ sessions'[j].started = sessions[i].started
             /\ sessions[i].ended # NULL => sessions'[j].ended = sessions[i].ended]_vars

\* A closed row and an open row of the same pid, after a restart, while a
\* report has run.
C7_Witness ==
    /\ restarts > 0
    /\ rpc = "done"
    /\ \E i, j \in DOMAIN sessions :
          /\ sessions[i].pid = sessions[j].pid
          /\ sessions[i].ended # NULL
          /\ sessions[j].ended = NULL

\* ---- C8 ------------------------------------------------------------------
RECURSIVE SumOver(_, _)
SumOver(S, rs) ==
    IF S = {} THEN 0
    ELSE LET i == CHOOSE x \in S : TRUE
         IN  (rs[i].ended[1] - rs[i].started[1]) + SumOver(S \ {i}, rs)

ClosedRows(rs, name) == {i \in DOMAIN rs : rs[i].path = name /\ rs[i].ended # NULL}

\* C8: the totals the report selects have one entry per program name with a
\* closed row, equal to the sum over the closed rows of that name of the whole
\* seconds of ended minus the whole seconds of started; open rows add nothing.
C8_AggregationCorrect ==
    [][(rpc = "idle" /\ rpc' # "idle")
       => /\ DOMAIN totals' = {n \in Tracked : ClosedRows(sessions, n) # {}}
          /\ \A n \in DOMAIN totals' : totals'[n] = SumOver(ClosedRows(sessions, n), sessions)]_vars

\* A report over a table with two closed rows of one name, an open row aside.
C8_Witness ==
    /\ pc = "report"
    /\ rpc = "done"
    /\ \E n \in DOMAIN totals :
          /\ Cardinality(ClosedRows(sessions, n)) >= 2
          /\ totals[n] > 0
    /\ \E i \in DOMAIN sessions : sessions[i].ended = NULL

\* ---- C9 ------------------------------------------------------------------
\* C9: for a total of S >= 0 seconds the printed fields are h = S div 3600,
\* m = (S mod 3600) div 60, s = S mod 60, so h*3600 + m*60 + s = S,
\* 0 <= m < 60 and 0 <= s < 60.
C9_ReportFormatting ==
    \A x \in hms :
       /\ x[1] = secs \div 3600
       /\ x[2] = (secs % 3600) \div 60
       /\ x[3] = secs % 60
       /\ x[1] * 3600 + x[2] * 60 + x[3] = secs
       /\ x[2] \in 0..59
       /\ x[3] \in 0..59

\* 3661 seconds print as 1h 1m 1s.
C9_Witness == secs = 3661 /\ hms = {<<1, 1, 1>>}

\* ---- C10 -----------------------------------------------------------------
\* C10: every row has its own id, and an open event adds one row and leaves
\* every earlier row as it was, so two pids of one name, or one pid closed
\* and seen again, have distinct rows.
C10_NeverMerged ==
    /\ [](\A i, j \in DOMAIN sessions : sessions[i].id = sessions[j].id => i = j)
    /\ [][(DOMAIN active' \ DOMAIN active # {})
          => /\ Len(sessions') = Len(sessions) + 1
             /\ \A i \in DOMAIN sessions : sessions'[i] = sessions[i]]_vars

\* One pid closed and opened again in the same run, and another pid with
\* the same name: three rows.
C10_Witness ==
    /\ restarts = 0
    /\ \E i, j, k \in DOMAIN sessions :
          /\ i < j
          /\ sessions[i].pid = sessions[j].pid
          /\ sessions[i].ended # NULL
          /\ sessions[j].ended = NULL
          /\ sessions[k].pid # sessions[i].pid
          /\ sessions[k].path = sessions[i].path

\* ---- C11 -----------------------------------------------------------------
\* C11: a restarted daemon starts with an empty map, and a row that had
\* ended NULL when the daemon was restarted keeps ended NULL in every later
\* state, whatever the restarted daemon observes.
C11_RestartOrphan ==
    [][/\ restarts' # restarts => active' = EmptyMap
       /\ \A i \in DOMAIN sessions :
             (sessions[i].id \in orphans /\ restarts' = restarts)
                => \E j \in DOMAIN sessions' : /\ sessions'[j].id = sessions[i].id
                                               /\ sessions'[j].ended = NULL]_vars

\* ---- C12 -----------------------------------------------------------------
ConfigUsable == config.exists /\ config.parses /\ config.tracked # << >>

SnapshotTolerance(IsTracked(_)) ==
    pc = "open" =>
       \A p \in Pids :
          /\ procs[p].status # "ok" => p \notin SeenPidSet
          /\ (procs[p].status = "ok" /\ IsTracked(procs[p]))
                => <<p, procs[p].name>> \in seen_pids
          /\ (procs[p].status = "ok" /\ ~IsTracked(procs[p])) => p \notin SeenPidSet

\* C14 as stated: a process whose comm cannot be read is left out and the
\* scan completes; every other process whose name is in the tracked list is
\* included and no process whose name is not in it is.
C14_SnapshotToleranceByName ==
    LET ByName(raw) == ~raw.pad /\ Contains(config.tracked, raw.name)
    IN  SnapshotTolerance(ByName)

\* C14 as amended: the same, with the name taken after trimming its leading
\* and trailing whitespace.
C14_SnapshotTolerance ==
    LET ByTrimmed(raw) == Contains(config.tracked, raw.name)
    IN  SnapshotTolerance(ByTrimmed)

\* A scan over an unreadable process and a tracked one.
C14_Witness ==
    /\ pc = "open"
    /\ \E p, q \in Pids :
          /\ procs[p].status = "eacces"
          /\ procs[q].status = "ok"
          /\ <<q, procs[q].name>> \in seen_pids

\* ---- C13 -----------------------------------------------------------------
\* The daemon is at a store write: an open or a close is due.
WriteDue == (pc = "open" /\ todo # {}) \/ (pc = "close" /\ prev_pids # {})

ExpectedLines(rs) ==
    {<<n, SumOver(ClosedRows(rs, n), rs) \div SecsPerHour,
          (SumOver(ClosedRows(rs, n), rs) % SecsPerHour) \div SecsPerMinute,
          SumOver(ClosedRows(rs, n), rs) % SecsPerMinute>> :
        n \in {m \in Tracked : ClosedRows(rs, m) # {}}}

\* C13: a report running alongside the daemon modifies no row, never keeps a
\* write of the daemon that is due from going through, and what it has
\* printed when it ends is the aggregation of the table at an instant of its
\* run.
C13_ReportAlongsideDaemon ==
    /\ [](WriteDue => ~SharedLockHeld)
    /\ [][/\ rpc' # rpc => sessions' = sessions
          /\ (rpc # "done" /\ rpc' = "done") => printed' = ExpectedLines(sessions)]_vars

\* ---- C15 -----------------------------------------------------------------
\* A tick has completed in a daemon run that began on a table without open
\* rows and in which no write failed.
CleanRunTickDone == TickDone /\ restarts = 0

\* C15: in such a run, after every tick the keys of the map are the pids
\* that have a row with ended NULL, each of them has exactly one such row,
\* and that row's path and started are the name and start kept in the map.
C15_TableMirrorsStore ==
    CleanRunTickDone =>
       /\ DOMAIN active = {p \in Pids : OpenRows(sessions, p) # {}}
       /\ \A p \in DOMAIN active :
             /\ Cardinality(OpenRows(sessions, p)) = 1
             /\ \A i \in OpenRows(sessions, p) :
                   /\ sessions[i].path = active[p].name
                   /\ sessions[i].started = to_rfc3339(active[p].start)

\* After a tick of such a run that closed a pid, another pid is open in the
\* map and in the table, next to a closed row.
C15_Witness ==
    /\ CleanRunTickDone
    /\ GonePids # {}
    /\ DOMAIN active # {}
    /\ \E i \in DOMAIN sessions : sessions[i].ended # NULL

\* ---- C16 -----------------------------------------------------------------
\* The daemon is inside a tick, past its pass over /proc, or has completed it.
InTick == pc \in {"open", "close", "sleep"}

\* Pids that were keys of the map before the tick and are observed by it.
SteadyPids == DOMAIN active0 \cap SeenPidSet

\* C16: throughout a tick, for every pid that was a key of the map before
\* the tick and is in the tick's observation, the rows of that pid are the
\* rows it had before the tick (none written, none added) and its map entry
\* is the one it had, whatever name the tick observed for the pid.
C16_SteadyStateFrame ==
    InTick =>
       \A p \in SteadyPids :
          /\ p \in DOMAIN active
          /\ active[p] = active0[p]
          /\ \A i \in DOMAIN sessions :
                sessions[i].pid = p =>
                   /\ i \in DOMAIN sessions0
                   /\ sessions[i] = sessions0[i]

\* A completed tick that observed a key of the map under a name other than
\* the one in the map, and that wrote to the table for another pid.
C16_Witness ==
    /\ TickDone
    /\ sessions # sessions0
    /\ \E e \in seen_pids :
          /\ e[1] \in DOMAIN active0
          /\ e[2] # active0[e[1]].name

\* ---- C17 -----------------------------------------------------------------
\* Pids a row was inserted for in the current tick, and pids a row of which
\* had its ended set in the current tick.
OpenedPids == {sessions[i].pid : i \in NewRowIdx}

ClosedPids ==
    {sessions0[i].pid :
        i \in {j \in DOMAIN sessions0 : /\ sessions0[j].ended = NULL
                                        /\ sessions[j].ended # NULL}}

\* The rows of a table without their ids, each with the number of times it
\* occurs.
UpToIds(rs) ==
    LET Body(r) == [path |-> r.path, pid |-> r.pid,
                    started |-> r.started, ended |-> r.ended]
    IN  [b \in {Body(rs[i]) : i \in DOMAIN rs} |->
            Cardinality({i \in DOMAIN rs : Body(rs[i]) = b})]

\* The orders in which the pids of a set can be processed.
OrdersOf(S) ==
    {ord \in [1..Cardinality(S) -> S] :
        \A i, j \in 1..Cardinality(S) : ord[i] = ord[j] => i = j}

\* The tick's work for one pid, with the name and the clock values the tick
\* used for it: the close of a pid that is gone, the open of a pid that is new.
TickStep(st, pid) ==
    IF pid \in GonePids
    THEN LET i == CHOOSE j \in OpenRows(sessions0, pid) : TRUE
         IN  [rs  |-> UpdateEnded(st.rs, sessions[i].ended, pid),
              act |-> active_remove(st.act, pid)]
    ELSE LET e == CHOOSE x \in seen_pids : x[1] = pid
         IN  [rs  |-> InsertSession(st.rs, e[2], pid, to_rfc3339(active[pid].start)),
              act |-> active_insert(st.act, pid, e[2], active[pid].start)]

RECURSIVE RunOrder(_, _, _)
RunOrder(st, ord, k) ==
    IF k > Len(ord) THEN st ELSE RunOrder(TickStep(st, ord[k]), ord, k + 1)

DueToClose(i) ==
    /\ InTick
    /\ i \in DOMAIN sessions0
    /\ sessions0[i].ended = NULL
    /\ sessions0[i].pid \notin SeenPidSet

IsClosed(i) == i \in DOMAIN sessions /\ sessions[i].ended # NULL

\* C18: in a daemon run that keeps ticking and in which no write fails,
\* every row that is open when a tick does not observe its pid has ended set
\* when that tick is complete, the tick does complete, and a row that has
\* ended set is never written again.
C18_EventuallyClosedOnce ==
    /\ [](\A i \in 1..MaxRows : (TickDone /\ DueToClose(i)) => IsClosed(i))
    /\ \A i \in 1..MaxRows : DueToClose(i) ~> (TickDone /\ IsClosed(i))
    /\ [][\A i \in DOMAIN sessions :
             sessions[i].ended # NULL
                => (i \in DOMAIN sessions' /\ sessions'[i] = sessions[i])]_vars

\* A completed tick that closed a row, with a row closed by an earlier tick
\* still as it was.
C18_Witness ==
    /\ TickDone
    /\ restarts = 0
    /\ rpc = "idle"
    /\ \E i \in DOMAIN sessions0 : DueToClose(i) /\ IsClosed(i)
    /\ \E j \in DOMAIN sessions0 : sessions0[j].ended # NULL

\* ---- C19 -----------------------------------------------------------------
\* Instant a is not before instant b, both as stored timestamps.
NotBefore(a, b) == a[1] > b[1] \/ (a[1] = b[1] /\ a[2] >= b[2])

\* C19: the clock never going back, in every reachable state, over ticks,
\* restarts and reports, every row with ended set has ended not before
\* started, and every total the report has computed is >= 0.
C19_NonNegativeDurations ==
    /\ \A i \in DOMAIN sessions :
          sessions[i].ended # NULL => NotBefore(sessions[i].ended, sessions[i].started)
    /\ \A n \in DOMAIN totals : totals[n] >= 0

\* A row left open by a stopped daemon has been closed by the restarted one,
\* later than it started, and a report has computed a total that is not zero.
C19_Witness ==
    /\ restarts > 0
    /\ rpc = "done"
    /\ \E n \in DOMAIN totals : totals[n] > 0
    /\ \E i \in DOMAIN sessions :
          /\ sessions[i].id \in orphans
          /\ sessions[i].ended # NULL
          /\ sessions[i].ended # sessions[i].started
====
